---- MODULE Spec2Model ----
(***************************************************************************)
(* Model of the pattern aggregation store of linkedin-content-agent:       *)
(* PatternStore (storage/patterns.py) and the load_patterns/save_patterns  *)
(* tools (tools/post_writer.py) acting on one backing JSON file.           *)
(*                                                                         *)
(* JSON values are encoded as records with a fixed set of fields, so that  *)
(* values of different Python types can be compared for equality.          *)
(***************************************************************************)
EXTENDS Integers, Sequences, FiniteSets, TLC

\* ---------------------------------------------------------------- bounds
MaxKey == 1          \* `example` values are 1..MaxKey
MaxBatch == 2        \* longest incoming sequence value
MaxSrc == 1          \* longest incoming `sources` argument
MaxClock == 1        \* datetime.now() returns a value in 0..MaxClock
MaxUpdates == 1      \* update() calls per process in the concurrent model

\* ---------------------------------------------------------------- universe
\* the category names get_summary knows, in the order it reports them
KnownCategories == <<"hooks", "structure", "tone", "ctas", "topics">>
\* "misc": a category name get_summary does not know
CatOrder == KnownCategories \o <<"misc">>
Categories == {CatOrder[i] : i \in DOMAIN CatOrder}
\* the categories the merge is exercised on
MergeCats == {"hooks", "tone"}
SourceIds == {"a.md", "b.md"}
AttrNames == {"formality", "voice"}
AttrVals == {"casual", "direct"}
Strs == {"x"}
Procs == {1, 2}
RootFields == {"version", "created_at", "updated_at", "sources", "patterns"}

TopN == 5            \* p['topics'][:5]
NotAvailable == "N/A"
None == 0            \* what dict.get("example") returns for a missing key
NoAttr == "-"        \* marks an attribute name that is not a key of a dict
NoTime == 0 - 1      \* placeholder of a timestamp field that is not present

\* ---------------------------------------------------------------- values
\* a PatternEntry that is a dict; example = None: it has no `example` key
DictEntry(k) == [kind |-> "dict", example |-> k, s |-> ""]
\* a dict entry with one more attribute, whose value is a; it has the
\* `example` of DictEntry(k) and is not equal to it
TaggedEntry(k, a) == [kind |-> "dict", example |-> k, s |-> a]
\* an entry of a sequence that is a bare string
StrEntry(s) == [kind |-> "str", example |-> None, s |-> s]
Entries == {DictEntry(k) : k \in 0..MaxKey} \cup {StrEntry(s) : s \in Strs}

NoAttrs == [a \in AttrNames |-> NoAttr]
Absent == [shape |-> "absent", items |-> <<>>, attrs |-> NoAttrs, s |-> ""]
ListVal(items) == [shape |-> "list", items |-> items, attrs |-> NoAttrs, s |-> ""]
DictVal(attrs) == [shape |-> "dict", items |-> <<>>, attrs |-> attrs, s |-> ""]
StrVal(s) == [shape |-> "str", items |-> <<>>, attrs |-> NoAttrs, s |-> s]
NumVal == [shape |-> "num", items |-> <<>>, attrs |-> NoAttrs, s |-> ""]

SeqsUpTo(S, n) == UNION {[1..m -> S] : m \in 0..n}
Range(f) == {f[i] : i \in DOMAIN f}

\* the values a caller can supply for one category
Values ==
    {ListVal(q) : q \in SeqsUpTo(Entries, MaxBatch)}
        \cup {ListVal(<<TaggedEntry(1, a)>>) : a \in Strs}
        \cup {DictVal(a) : a \in [AttrNames -> AttrVals \cup {NoAttr}]}
        \cup {StrVal(s) : s \in Strs} \cup {NumVal}

NoPatterns == [c \in Categories |-> Absent]

\* ---------------------------------------------------------------- documents
\* st: "missing" (no file), "empty" (opened for writing, nothing written yet),
\* "garbled" (bytes that do not parse: those of two writers, or the beginning
\* of a document whose write was stopped), "ok" (a well-formed JSON object whose
\* top-level keys are `fields`)
Doc(fields, created, updated, sources, patterns) ==
    [st |-> "ok", fields |-> fields, version |-> "1.0", created_at |-> created,
     updated_at |-> updated, sources |-> sources, patterns |-> patterns]
NoDoc(st) ==
    [st |-> st, fields |-> {}, version |-> "", created_at |-> NoTime,
     updated_at |-> NoTime, sources |-> <<>>, patterns |-> NoPatterns]
Missing == NoDoc("missing")

VARIABLES
    file,        \* content of the backing file at storage_path
    clock,       \* last value datetime.now() returned
    last,        \* the call that ran last and the exception it raised
    passed,      \* source identifiers passed to the update() calls that
                 \* returned since the store was last empty
    pc,          \* concurrent model: position of each process in update()
    cur,         \* concurrent model: `current` of each process
    args,        \* concurrent model: the arguments of each process's call
    ret,         \* concurrent model: how each process's call ended, and
                 \* the collection it returned
    wrote,       \* concurrent model: the call of the process has opened
                 \* the file for writing
    writer,      \* concurrent model: the process whose save completed last,
                 \* and the collection it saved
    runs         \* concurrent model: update() calls each process has begun

vars == <<file, clock, last, passed, pc, cur, args, ret, wrote, writer, runs>>
conc == <<pc, cur, args, ret, wrote, writer, runs>>

\* ---------------------------------------------------------------- PatternStore
\* PatternStore._empty_patterns
_empty_patterns(t1, t2) == Doc(RootFields, t1, t2, <<>>, NoPatterns)

\* a load that repairs: a file that does not parse is taken for no file
loadRepairing(f, t1, t2) ==
    IF f.st = "ok" THEN [err |-> "", doc |-> f]
    ELSE [err |-> "", doc |-> _empty_patterns(t1, t2)]

\* PatternStore.load: [err, doc]
load(f, t1, t2) ==
    IF f.st = "missing" THEN [err |-> "", doc |-> _empty_patterns(t1, t2)]
    ELSE IF f.st = "ok" THEN [err |-> "", doc |-> f]
    ELSE [err |-> "JSONDecodeError", doc |-> f]

\* a save that stamps a copy: the caller's dict is left as it was
StampedCopy(patterns, t) == patterns

\* line 26 of PatternStore.save: the dict of the caller after
\* patterns["updated_at"] = datetime.now().isoformat()
Stamped(patterns, t) ==
    [patterns EXCEPT !.updated_at = t, !.fields = @ \cup {"updated_at"}]

\* a save that does not stamp: the collection is written with the updated_at
\* it has
saveUnstamped(patterns, t) == [patterns EXCEPT !.fields = @ \cup {"updated_at"}]

\* a save taken for clear: a fresh scaffold is written
saveFresh(patterns, t) == _empty_patterns(t, t)

\* a save that merges: the categories and the sources the file holds and the
\* collection does not have are kept
saveKeeping(patterns, t) ==
    IF file.st # "ok"
    THEN [patterns EXCEPT !.updated_at = t, !.fields = @ \cup {"updated_at"}]
    ELSE [patterns EXCEPT
            !.updated_at = t,
            !.fields = @ \cup {"updated_at"},
            !.sources = IF @ = <<>> THEN file.sources ELSE @,
            !.patterns = [c \in Categories |->
                            IF @[c].shape # "absent" THEN @[c] ELSE file.patterns[c]]]

\* PatternStore.save: the document the file holds after the write; the file
\* is opened with "w", so nothing it held is left, and json.dump writes the
\* stamped dict
save(patterns, t) ==
    [patterns EXCEPT !.updated_at = t, !.fields = @ \cup {"updated_at"}]

\* item.get("example")
GetExample(item) == item.example

\* `item in existing` for a bare string item, by the type of `existing`
Contains(existing, item) ==
    CASE existing.shape = "list" -> item \in Range(existing.items)
      [] existing.shape = "dict" ->
            item.s \in AttrNames /\ existing.attrs[item.s] # NoAttr
      [] existing.shape = "str" -> existing.s = item.s
      [] OTHER -> FALSE

\* existing with the dict entries that have the `example` of item replaced by
\* item
Overwritten(existing, item) ==
    ListVal([i \in DOMAIN existing.items |->
               IF existing.items[i].kind = "dict"
                     /\ existing.items[i].example = item.example
               THEN item ELSE existing.items[i]])

\* the loop with the last entry of an `example` winning: a stored entry is
\* overwritten by the incoming entry that has its key
RECURSIVE MergeLoopOverwriting(_, _, _, _)
MergeLoopOverwriting(existing, seen, new, i) ==
    IF i > Len(new) THEN [err |-> "", val |-> existing]
    ELSE LET item == new[i]
             appends == IF item.kind = "dict" THEN item.example \notin seen
                        ELSE item \notin Range(existing.items)
         IN IF existing.shape # "list" THEN [err |-> "AttributeError", val |-> existing]
            ELSE IF appends
            THEN MergeLoopOverwriting(ListVal(Append(existing.items, item)),
                                      seen \cup {item.example}, new, i + 1)
            ELSE MergeLoopOverwriting(Overwritten(existing, item), seen, new, i + 1)

\* the loop with every entry keyed by .get("example"): a bare string has the
\* key None, is looked up in `seen` and is added to it
RECURSIVE MergeLoopScalarsSeen(_, _, _, _)
MergeLoopScalarsSeen(existing, seen, new, i) ==
    IF i > Len(new) THEN [err |-> "", val |-> existing]
    ELSE LET item == new[i]
             key == IF item.kind = "dict" THEN GetExample(item) ELSE None
         IN IF key \in seen THEN MergeLoopScalarsSeen(existing, seen, new, i + 1)
            ELSE IF existing.shape # "list"
            THEN [err |-> "AttributeError", val |-> existing]
            ELSE MergeLoopScalarsSeen(ListVal(Append(existing.items, item)),
                                      seen \cup {key}, new, i + 1)

\* the loop of PatternStore._merge_lists; existing.append raises unless
\* `existing` is a list
RECURSIVE MergeLoop(_, _, _, _)
MergeLoop(existing, seen, new, i) ==
    IF i > Len(new) THEN [err |-> "", val |-> existing]
    ELSE LET item == new[i]
             appends == IF item.kind = "dict" THEN GetExample(item) \notin seen
                        ELSE ~Contains(existing, item)
             seen2 == IF item.kind = "dict" /\ appends
                      THEN seen \cup {GetExample(item)} ELSE seen
         IN IF ~appends THEN MergeLoop(existing, seen, new, i + 1)
            ELSE IF existing.shape # "list"
            THEN [err |-> "AttributeError", val |-> existing]
            ELSE MergeLoop(ListVal(Append(existing.items, item)), seen2, new, i + 1)

\* _merge_lists with `seen` starting empty: the stored entries' keys ignored
_merge_lists_unseen(existing, new) ==
    IF existing.shape = "num" THEN [err |-> "TypeError", val |-> existing]
    ELSE MergeLoop(existing, {}, new.items, 1)

\* PatternStore._merge_lists: [err, val]
_merge_lists(existing, new) ==
    IF existing.shape = "num" THEN [err |-> "TypeError", val |-> existing]
    ELSE LET seen == IF existing.shape = "list"
                     THEN {GetExample(existing.items[i]) :
                             i \in {j \in DOMAIN existing.items :
                                      existing.items[j].kind = "dict"}}
                     ELSE {}
         IN MergeLoop(existing, seen, new.items, 1)

\* dict.update taken for an assignment: the stored keys are dropped
DictUpdateReplacing(existing, value) ==
    IF existing.shape # "dict" THEN [err |-> "AttributeError", val |-> existing]
    ELSE [err |-> "", val |-> value]

\* dict.update on the stored value of a category: [err, val]
DictUpdate(existing, value) ==
    IF existing.shape # "dict" THEN [err |-> "AttributeError", val |-> existing]
    ELSE [err |-> "",
          val |-> DictVal([a \in AttrNames |->
                    IF value.attrs[a] # NoAttr THEN value.attrs[a]
                    ELSE existing.attrs[a]])]

\* the list branch taken for list concatenation: nothing is deduplicated
MergeKeyExtending(existing, value) ==
    IF existing.shape = "list" /\ value.shape = "list"
    THEN [err |-> "", val |-> ListVal(existing.items \o value.items)]
    ELSE IF existing.shape # "absent" /\ value.shape = "list"
    THEN _merge_lists(existing, value)
    ELSE IF existing.shape # "absent" /\ value.shape = "dict"
    THEN DictUpdate(existing, value)
    ELSE [err |-> "", val |-> value]

\* the list branch taken for every incoming list: the list of a category that
\* is not stored yet is merged into an empty one, and so deduplicated
MergeKeyDeduping(existing, value) ==
    IF value.shape = "list"
    THEN _merge_lists(IF existing.shape = "absent" THEN ListVal(<<>>) ELSE existing,
                      value)
    ELSE IF existing.shape # "absent" /\ value.shape = "dict"
    THEN DictUpdate(existing, value)
    ELSE [err |-> "", val |-> value]

\* one iteration of the loop of PatternStore.update: [err, val]
MergeKey(existing, value) ==
    IF existing.shape # "absent" /\ value.shape = "list"
    THEN _merge_lists(existing, value)
    ELSE IF existing.shape # "absent" /\ value.shape = "dict"
    THEN DictUpdate(existing, value)
    ELSE [err |-> "", val |-> value]

\* the loop of PatternStore.update over new_patterns.items(); a category that
\* new_patterns does not name maps to Absent
RECURSIVE MergePatterns(_, _, _)
MergePatterns(patterns, new_patterns, i) ==
    IF i > Len(CatOrder) THEN [err |-> "", patterns |-> patterns]
    ELSE LET key == CatOrder[i] IN
         IF new_patterns[key].shape = "absent"
         THEN MergePatterns(patterns, new_patterns, i + 1)
         ELSE LET r == MergeKey(patterns[key], new_patterns[key]) IN
              IF r.err # "" THEN [err |-> r.err, patterns |-> patterns]
              ELSE MergePatterns([patterns EXCEPT ![key] = r.val],
                                 new_patterns, i + 1)

\* list(set(xs)): any order of the distinct elements
ListsOfSet(S) == {q \in [1..Cardinality(S) -> S] : Range(q) = S}

\* the sources taken for the incoming ones alone: the stored ones are lost
SourceSetIncoming(current, sources) == Range(sources)

\* the elements of list(set(current.get("sources", []) + sources))
SourceSet(current, sources) == Range(current.sources) \cup Range(sources)

\* `current` after lines 35-51 of PatternStore.update, with `patterns` the
\* outcome of the loop
InMemory(current, patterns, srcs, t1) ==
    [current EXCEPT !.updated_at = t1,
                    !.sources = srcs,
                    !.patterns = patterns,
                    !.fields = @ \cup {"updated_at", "sources", "patterns"}]

\* PatternStore.update from the load on: the merge, then save(current)
Merged(current, patterns, srcs, t1, t2) ==
    save(InMemory(current, patterns, srcs, t1), t2)

\* the exception a call of PatternStore.update raises, "" if none
UpdateErr(f, new_patterns) ==
    LET l == load(f, 0, 0) IN
    IF l.err # "" THEN l.err
    ELSE MergePatterns(l.doc.patterns, new_patterns, 1).err

\* PatternStore.update as one call: [err, doc (returned), file (afterwards)].
\* srcs is the order list(set(..)) gives the sources; t1 <= t2 are the first
\* and the last value the call reads from datetime.now()
update(f, new_patterns, sources, srcs, t1, t2) ==
    LET l == load(f, t1, t1)
        m == MergePatterns(l.doc.patterns, new_patterns, 1)
        err == IF l.err # "" THEN l.err ELSE m.err
        doc == Merged(l.doc, m.patterns, srcs, t1, t2)
    IN IF err # "" THEN [err |-> err, doc |-> f, file |-> f]
       ELSE [err |-> "",
             doc |-> Stamped(InMemory(l.doc, m.patterns, srcs, t1), t2),
             file |-> doc]

\* a clear that keeps the sources the file holds
clearKeeping(t1, t2) ==
    save([_empty_patterns(t1, t1) EXCEPT !.sources = file.sources], t2)

\* PatternStore.clear: the document written
clear(t1, t2) == save(_empty_patterns(t1, t1), t2)

\* ---------------------------------------------------------------- get_summary
\* a line of the digest: its label, and the number, the text or the texts it
\* shows
Line(tag, n, s, items) == [tag |-> tag, n |-> n, s |-> s, items |-> items]
Label(key) ==
    CASE key = "hooks" -> "Hooks"
      [] key = "structure" -> "Avg length"
      [] key = "tone" -> "Tone"
      [] key = "ctas" -> "CTAs"
      [] key = "topics" -> "Topics"

\* len(v): [err, n]
PyLen(v) ==
    CASE v.shape = "list" -> [err |-> "", n |-> Len(v.items)]
      [] v.shape = "dict" ->
            [err |-> "", n |-> Cardinality({a \in AttrNames : v.attrs[a] # NoAttr})]
      [] v.shape = "str" -> [err |-> "", n |-> Len(v.s)]
      [] OTHER -> [err |-> "TypeError", n |-> 0]

\* v.get(name, 'N/A'): [err, s]
PyGet(v, name) ==
    IF v.shape # "dict" THEN [err |-> "AttributeError", s |-> ""]
    ELSE IF name \in AttrNames /\ v.attrs[name] # NoAttr
    THEN [err |-> "", s |-> v.attrs[name]]
    ELSE [err |-> "", s |-> NotAvailable]

\* ', '.join(v[:5]), kept as the texts joined: [err, items]
PyJoinFirst(v) ==
    CASE v.shape = "list" ->
            LET head == SubSeq(v.items, 1, IF Len(v.items) < TopN THEN Len(v.items) ELSE TopN)
            IN IF \E i \in DOMAIN head : head[i].kind # "str"
               THEN [err |-> "TypeError", items |-> <<>>]
               ELSE [err |-> "", items |-> [i \in DOMAIN head |-> head[i].s]]
      [] v.shape = "str" -> [err |-> "", items |-> <<v.s>>]
      [] OTHER -> [err |-> "TypeError", items |-> <<>>]

\* the line of get_summary for a known category that is present: [err, line]
SummaryLine(key, v) ==
    CASE key \in {"hooks", "ctas"} ->
            [err |-> PyLen(v).err, line |-> Line(Label(key), PyLen(v).n, "", <<>>)]
      [] key = "structure" ->
            [err |-> PyGet(v, "avg_length").err,
             line |-> Line(Label(key), 0, PyGet(v, "avg_length").s, <<>>)]
      [] key = "tone" ->
            [err |-> PyGet(v, "formality").err,
             line |-> Line(Label(key), 0, PyGet(v, "formality").s, <<>>)]
      [] key = "topics" ->
            [err |-> PyJoinFirst(v).err,
             line |-> Line(Label(key), 0, "", PyJoinFirst(v).items)]

\* lines 85-94 of get_summary: the `if key in p` statements, in a given order
\* of the keys
RECURSIVE SummaryLines(_, _, _, _)
SummaryLines(p, order, i, lines) ==
    IF i > Len(order) THEN [err |-> "", lines |-> lines]
    ELSE IF p[order[i]].shape = "absent" THEN SummaryLines(p, order, i + 1, lines)
    ELSE LET r == SummaryLine(order[i], p[order[i]]) IN
         IF r.err # "" THEN [err |-> r.err, lines |-> lines]
         ELSE SummaryLines(p, order, i + 1, Append(lines, r.line))

\* not patterns.get("patterns")
NoPatternsIn(doc) ==
    "patterns" \notin doc.fields \/ \A c \in Categories : doc.patterns[c].shape = "absent"

\* lines 79-83 of get_summary
SummaryHead(doc) ==
    <<Line("Sources", IF "sources" \in doc.fields THEN Len(doc.sources) ELSE 0, "", <<>>),
      Line("Last updated",
           IF "updated_at" \in doc.fields THEN doc.updated_at ELSE NoTime, "", <<>>),
      Line("", 0, "", <<>>)>>

\* a get_summary that reports the categories in the order of the alphabet
get_summary_sorted(f) ==
    LET l == load(f, 0, 0)
        r == SummaryLines(l.doc.patterns,
                          <<"ctas", "hooks", "structure", "tone", "topics">>, 1,
                          SummaryHead(l.doc))
    IN IF l.err # "" THEN [err |-> l.err, none |-> FALSE, lines |-> <<>>]
       ELSE IF NoPatternsIn(l.doc) THEN [err |-> "", none |-> TRUE, lines |-> <<>>]
       ELSE [err |-> r.err, none |-> FALSE, lines |-> IF r.err = "" THEN r.lines ELSE <<>>]

\* PatternStore.get_summary: [err, none (it returned None), lines]
get_summary(f) ==
    LET l == load(f, 0, 0)
        r == SummaryLines(l.doc.patterns, KnownCategories, 1, SummaryHead(l.doc))
    IN IF l.err # "" THEN [err |-> l.err, none |-> FALSE, lines |-> <<>>]
       ELSE IF NoPatternsIn(l.doc) THEN [err |-> "", none |-> TRUE, lines |-> <<>>]
       ELSE [err |-> r.err, none |-> FALSE, lines |-> IF r.err = "" THEN r.lines ELSE <<>>]

\* ---------------------------------------------------------------- tools
\* a load_patterns that reports an empty `patterns` as a success
load_patterns_lenient(f) ==
    IF f.st = "missing"
    THEN [err |-> "", success |-> FALSE, none |-> TRUE, patterns |-> NoPatterns,
          message |-> "No patterns found"]
    ELSE IF f.st # "ok"
    THEN [err |-> "JSONDecodeError", success |-> FALSE, none |-> TRUE,
          patterns |-> NoPatterns, message |-> ""]
    ELSE [err |-> "", success |-> TRUE, none |-> FALSE,
          patterns |-> IF "patterns" \in f.fields THEN f.patterns ELSE NoPatterns,
          message |-> "Loaded patterns"]

\* load_patterns (tools/post_writer.py): [err, success, none (`patterns` is
\* None), patterns, message]
load_patterns(f) ==
    IF f.st = "missing"
    THEN [err |-> "", success |-> FALSE, none |-> TRUE, patterns |-> NoPatterns,
          message |-> "No patterns found"]
    ELSE IF f.st # "ok"
    THEN [err |-> "JSONDecodeError", success |-> FALSE, none |-> TRUE,
          patterns |-> NoPatterns, message |-> ""]
    ELSE IF NoPatternsIn(f)
    THEN [err |-> "", success |-> FALSE, none |-> TRUE, patterns |-> NoPatterns,
          message |-> "Patterns file exists but is empty"]
    ELSE [err |-> "", success |-> TRUE, none |-> FALSE, patterns |-> f.patterns,
          message |-> "Loaded patterns"]

\* a save_patterns that merges what it is given into the stored categories
\* the way update() does
save_patterns_merging(f, patterns, t) ==
    IF f.st \notin {"missing", "ok"} THEN [err |-> "JSONDecodeError", file |-> f]
    ELSE LET existing == IF f.st = "missing" THEN [NoDoc("ok") EXCEPT !.fields = {}]
                         ELSE f
             stored == IF "patterns" \in existing.fields THEN existing.patterns
                       ELSE NoPatterns
             m == MergePatterns(stored, patterns, 1)
         IN IF m.err # "" THEN [err |-> m.err, file |-> f]
            ELSE [err |-> "",
                  file |-> [existing EXCEPT
                             !.updated_at = t,
                             !.fields = @ \cup {"updated_at", "patterns"},
                             !.patterns = m.patterns]]

\* save_patterns (tools/post_writer.py): [err, file]
save_patterns(f, patterns, t) ==
    IF f.st \notin {"missing", "ok"} THEN [err |-> "JSONDecodeError", file |-> f]
    ELSE LET existing == IF f.st = "missing" THEN [NoDoc("ok") EXCEPT !.fields = {}]
                         ELSE f
             stored == IF "patterns" \in existing.fields THEN existing.patterns
                       ELSE NoPatterns
         IN [err |-> "",
             file |-> [existing EXCEPT
                        !.updated_at = t,
                        !.fields = @ \cup {"updated_at", "patterns"},
                        !.patterns = [c \in Categories |->
                            IF patterns[c].shape # "absent" THEN patterns[c]
                            ELSE stored[c]]]]

\* ---------------------------------------------------------------- inputs
\* new_patterns arguments: a category named maps to its value, the others to
\* Absent.
Args(c, v) == [k \in Categories |-> IF k = c THEN v ELSE Absent]
\* every value of every shape, for the category "hooks"
HooksArgs == {Args("hooks", v) : v \in Values \cup {Absent}}
\* one value of each shape, for any of the categories of MergeCats
CatsValues ==
    {ListVal(<<DictEntry(1)>>),
     DictVal([a \in AttrNames |-> IF a = "formality" THEN "casual" ELSE NoAttr]),
     StrVal("x")}
CatsArgs ==
    {[c \in Categories |-> IF c \in MergeCats THEN a[c] ELSE Absent] :
       a \in [MergeCats -> CatsValues \cup {Absent}]}
SourcesArgs == SeqsUpTo(SourceIds, MaxSrc)
\* the times a step can read from the clock
Times(from) == from..MaxClock

\* the update() arguments of SpecStore
StoreArgs ==
    {NoPatterns,
     Args("hooks", ListVal(<<DictEntry(1)>>)),
     Args("tone", DictVal([a \in AttrNames |-> IF a = "formality" THEN "casual" ELSE NoAttr]))}
\* the dict {}
EmptyDict == [NoDoc("ok") EXCEPT !.fields = {}]
\* the collections a caller hands to save(): {} and a collection with a source
\* and a category that update() is not called with in SpecStore
SaveDocs == {EmptyDict, Doc(RootFields, 0, 0, <<"b.md">>, Args("misc", StrVal("x")))}

\* a sequence of topics longer than get_summary shows
LongTopics == [i \in 1..(TopN + 1) |-> StrEntry("x")]
\* the update() calls of SpecView: for every category name a value of the
\* shape get_summary reads, for tone a sequence too, and for topics a long
\* sequence and a sequence of dict entries
ViewArgs ==
    {Args(c, ListVal(<<StrEntry("x")>>)) : c \in {"hooks", "ctas", "topics", "misc", "tone"}}
      \cup {Args(c, DictVal([a \in AttrNames |-> IF a = "formality" THEN "casual" ELSE NoAttr])) :
              c \in {"structure", "tone"}}
      \cup {Args("topics", ListVal(<<DictEntry(1)>>))}
ViewCalls ==
    {[new_patterns |-> P, sources |-> <<>>] : P \in ViewArgs}
      \cup {[new_patterns |-> Args("topics", ListVal(LongTopics)), sources |-> <<"a.md">>]}

\* the calls of the concurrent model: two that touch different categories and
\* one whose value does not have the shape the first one stores
Formal == [a \in AttrNames |-> IF a = "formality" THEN "casual" ELSE NoAttr]
ConcCalls ==
    {[new_patterns |-> Args("hooks", ListVal(<<DictEntry(1)>>)), sources |-> <<"a.md">>],
     [new_patterns |-> Args("tone", DictVal(Formal)), sources |-> <<"b.md">>],
     [new_patterns |-> Args("hooks", DictVal(Formal)), sources |-> <<"b.md">>]}
NoCall == [new_patterns |-> NoPatterns, sources |-> <<>>]
NoReturn == [err |-> "none", doc |-> Missing]

\* ---------------------------------------------------------------- actions
Init ==
    /\ file = Missing
    /\ clock = 0
    /\ last = [op |-> "init", err |-> ""]
    /\ passed = {}
    /\ pc = [p \in Procs |-> "idle"]
    /\ cur = [p \in Procs |-> Missing]
    /\ args = [p \in Procs |-> NoCall]
    /\ ret = [p \in Procs |-> NoReturn]
    /\ wrote = [p \in Procs |-> FALSE]
    /\ writer = [by |-> 0, doc |-> Missing]
    /\ runs = [p \in Procs |-> 0]

\* one call of PatternStore.update by the only process.  Of the values the
\* call reads from the clock only the first one of a scaffold (created_at) and
\* the last one (save) stay in the document; `hi` is the latest time the call
\* can read.
DoUpdate(new_patterns, sources, hi) ==
    LET err == UpdateErr(file, new_patterns)
        firsts == IF file.st = "missing" THEN clock..hi ELSE {clock}
    IN
    IF err # ""
    THEN /\ last' = [op |-> "update", err |-> err]
         /\ UNCHANGED <<file, clock, passed, conc>>
    ELSE \E t1 \in firsts : \E t2 \in t1..hi :
           \E srcs \in ListsOfSet(SourceSet(load(file, t1, t1).doc, sources)) :
             /\ file' = update(file, new_patterns, sources, srcs, t1, t2).file
             /\ clock' = t2
             /\ last' = [op |-> "update", err |-> ""]
             /\ passed' = passed \cup Range(sources)
             /\ UNCHANGED conc

\* PatternStore.clear
DoClear(hi) ==
    \E t1 \in clock..hi : \E t2 \in t1..hi :
      /\ file' = clear(t1, t2)
      /\ clock' = t2
      /\ last' = [op |-> "clear", err |-> ""]
      /\ passed' = {}
      /\ UNCHANGED conc

\* the save_patterns tool
DoSavePatterns(patterns, hi) ==
    \E t \in clock..hi :
      LET r == save_patterns(file, patterns, t) IN
      /\ file' = r.file
      /\ clock' = IF r.err = "" THEN t ELSE clock
      /\ last' = [op |-> "save_patterns", err |-> r.err]
      /\ UNCHANGED <<passed, conc>>

\* a write to a temporary file that is renamed over the path when it is
\* complete: a process stopped inside the write leaves the file as it was
KilledAtomic ==
    \E op \in {"update", "clear", "save_patterns"} :
      /\ op = "update" => load(file, clock, clock).err = ""
      /\ op = "save_patterns" => file.st \in {"missing", "ok"}
      /\ last' = [op |-> op, err |-> "killed"]
      /\ UNCHANGED <<file, clock, passed, conc>>

\* the process is stopped inside a write, after open(path, "w") has truncated
\* the file and before json.dump and the close of the file have written all
\* of the document: nothing of it is in the file, or its beginning
Killed ==
    \E op \in {"update", "clear", "save_patterns"} :
      /\ op = "update" => load(file, clock, clock).err = ""
      /\ op = "save_patterns" => file.st \in {"missing", "ok"}
      /\ file' \in {NoDoc("empty"), NoDoc("garbled")}
      /\ last' = [op |-> op, err |-> "killed"]
      /\ UNCHANGED <<clock, passed, conc>>

\* a load that saves the scaffold it builds for a missing file
DoLoadPersisting(hi) ==
    /\ clock' \in (IF file.st = "missing" THEN clock..hi ELSE {clock})
    /\ last' = [op |-> "load", err |-> load(file, clock, clock).err]
    /\ file' = IF file.st = "missing" THEN save(_empty_patterns(clock, clock), clock')
               ELSE file
    /\ UNCHANGED <<passed, conc>>

\* PatternStore.load; the scaffold of a missing file reads the clock
DoLoad(hi) ==
    /\ clock' \in (IF file.st = "missing" THEN clock..hi ELSE {clock})
    /\ last' = [op |-> "load", err |-> load(file, clock, clock).err]
    /\ UNCHANGED <<file, passed, conc>>

\* PatternStore.save(c)
DoSave(c, hi) ==
    \E t \in clock..hi :
      /\ file' = save(c, t)
      /\ clock' = t
      /\ last' = [op |-> "save", err |-> ""]
      /\ passed' = Range(c.sources)
      /\ UNCHANGED conc

\* save(load())
DoResave(hi) ==
    IF load(file, clock, clock).err # ""
    THEN /\ last' = [op |-> "resave", err |-> load(file, clock, clock).err]
         /\ UNCHANGED <<file, clock, passed, conc>>
    ELSE \E t1 \in (IF file.st = "missing" THEN clock..hi ELSE {clock}) :
           \E t2 \in t1..hi : \E t \in t2..hi :
             /\ file' = save(load(file, t1, t2).doc, t)
             /\ clock' = t
             /\ last' = [op |-> "resave", err |-> ""]
             /\ UNCHANGED <<passed, conc>>

\* PatternStore.get_summary
DoGetSummary(hi) ==
    /\ clock' \in (IF file.st = "missing" THEN clock..hi ELSE {clock})
    /\ last' = [op |-> "get_summary", err |-> get_summary(file).err]
    /\ UNCHANGED <<file, passed, conc>>

\* the load_patterns tool
DoLoadPatterns ==
    /\ last' = [op |-> "load_patterns", err |-> load_patterns(file).err]
    /\ UNCHANGED <<file, clock, passed, conc>>

\* ---- Spec: one store, one category, every value of every shape, no
\* sources, and all the calls within one reading of the clock
Update == \E new_patterns \in HooksArgs : DoUpdate(new_patterns, <<>>, clock)

Clear == DoClear(clock)

SavePatterns == \E patterns \in HooksArgs : DoSavePatterns(patterns, clock)

Next == Update \/ Clear \/ SavePatterns \/ Killed

Spec == Init /\ [][Next]_vars

\* ---- SpecCats: one store, all categories, sources and a clock that
\* advances, one value per shape
UpdateCats == \E new_patterns \in CatsArgs, sources \in SourcesArgs :
                DoUpdate(new_patterns, sources, MaxClock)

ClearCats == DoClear(MaxClock)

SavePatternsCats == \E patterns \in CatsArgs : DoSavePatterns(patterns, MaxClock)

NextCats == UpdateCats \/ ClearCats \/ SavePatternsCats \/ Killed

SpecCats == Init /\ [][NextCats]_vars

\* ---- SpecStore: the persistence layer called directly: load, save(c) and
\* save(load()), with update, clear and a stopped write; the clock advances
UpdateStore == \E new_patterns \in StoreArgs, sources \in SourcesArgs :
                 DoUpdate(new_patterns, sources, MaxClock)

Load == DoLoad(MaxClock)

Save == \E c \in SaveDocs : DoSave(c, MaxClock)

Resave == DoResave(MaxClock)

SavePatternsStore == \E patterns \in StoreArgs : DoSavePatterns(patterns, MaxClock)

NextStore ==
    UpdateStore \/ ClearCats \/ Load \/ Save \/ Resave \/ SavePatternsStore \/ Killed

SpecStore == Init /\ [][NextStore]_vars

\* ---- SpecView: the readers get_summary and load_patterns on stores with
\* every category name, within one reading of the clock
UpdateView == \E call \in ViewCalls : DoUpdate(call.new_patterns, call.sources, clock)

SaveView == DoSave(EmptyDict, clock)

GetSummary == DoGetSummary(clock)

LoadPatterns == DoLoadPatterns

LoadView == DoLoad(clock)

NextView ==
    UpdateView \/ Clear \/ SaveView \/ LoadView \/ GetSummary \/ LoadPatterns \/ Killed

SpecView == Init /\ [][NextView]_vars

\* ---- SpecConc: processes that share the file, each inside update()
\* line 32: current = self.load()
ULoad(p) ==
    /\ pc[p] = "idle"
    /\ runs[p] < MaxUpdates
    /\ \E call \in ConcCalls :
         \E t \in (IF file.st = "missing" THEN Times(clock) ELSE {clock}) :
           LET l == load(file, t, t) IN
           /\ runs' = [runs EXCEPT ![p] = @ + 1]
           /\ args' = [args EXCEPT ![p] = call]
           /\ wrote' = [wrote EXCEPT ![p] = FALSE]
           /\ clock' = t
           /\ IF l.err # ""
              THEN /\ ret' = [ret EXCEPT ![p] = [err |-> l.err, doc |-> Missing]]
                   /\ UNCHANGED <<pc, cur>>
              ELSE /\ ret' = [ret EXCEPT ![p] = NoReturn]
                   /\ cur' = [cur EXCEPT ![p] = l.doc]
                   /\ pc' = [pc EXCEPT ![p] = "loaded"]
    /\ UNCHANGED <<file, last, passed, writer>>

\* the merge with the sources saved before the loop over the categories runs
UMergeSaving(p) ==
    /\ pc[p] = "loaded"
    /\ LET m == MergePatterns(cur[p].patterns, args[p].new_patterns, 1) IN
       IF m.err # ""
       THEN /\ ret' = [ret EXCEPT ![p] = [err |-> m.err, doc |-> Missing]]
            /\ pc' = [pc EXCEPT ![p] = "idle"]
            /\ file' = InMemory(cur[p], cur[p].patterns,
                                CHOOSE q \in ListsOfSet(SourceSet(cur[p], args[p].sources)) : TRUE,
                                clock)
            /\ wrote' = [wrote EXCEPT ![p] = TRUE]
            /\ UNCHANGED cur
       ELSE \E srcs \in ListsOfSet(SourceSet(cur[p], args[p].sources)) :
              /\ cur' = [cur EXCEPT ![p] = InMemory(cur[p], m.patterns, srcs, clock)]
              /\ pc' = [pc EXCEPT ![p] = "merged"]
              /\ UNCHANGED <<ret, file, wrote>>
    /\ UNCHANGED <<clock, last, passed, args, writer, runs>>

\* lines 35-51: the merge, in memory (the time written at line 35 is
\* overwritten by save before anything shows it)
UMerge(p) ==
    /\ pc[p] = "loaded"
    /\ LET m == MergePatterns(cur[p].patterns, args[p].new_patterns, 1) IN
       IF m.err # ""
       THEN /\ ret' = [ret EXCEPT ![p] = [err |-> m.err, doc |-> Missing]]
            /\ pc' = [pc EXCEPT ![p] = "idle"]
            /\ UNCHANGED cur
       ELSE \E srcs \in ListsOfSet(SourceSet(cur[p], args[p].sources)) :
              /\ cur' = [cur EXCEPT ![p] = InMemory(cur[p], m.patterns, srcs, clock)]
              /\ pc' = [pc EXCEPT ![p] = "merged"]
              /\ UNCHANGED ret
    /\ UNCHANGED <<file, clock, last, passed, args, wrote, writer, runs>>

\* lines 26-27 of save: the time stamp, and open(path, "w") truncates the file
USaveOpen(p) ==
    /\ pc[p] = "merged"
    /\ \E t \in Times(clock) :
         /\ cur' = [cur EXCEPT ![p] = save(cur[p], t)]
         /\ clock' = t
    /\ file' = NoDoc("empty")
    /\ wrote' = [wrote EXCEPT ![p] = TRUE]
    /\ pc' = [pc EXCEPT ![p] = "opened"]
    /\ UNCHANGED <<last, passed, args, ret, writer, runs>>

\* a save that keeps what the file holds of the categories and the sources
\* that `doc` does not have
DumpOutcomesMerging(f, doc) ==
    IF f.st # "ok" THEN {doc}
    ELSE {[doc EXCEPT
             !.sources = CHOOSE q \in ListsOfSet(Range(f.sources) \cup Range(doc.sources)) : TRUE,
             !.patterns = [c \in Categories |->
                             IF doc.patterns[c].shape # "absent" THEN doc.patterns[c]
                             ELSE f.patterns[c]]]}

\* what the file holds after json.dump and close wrote `doc` from offset 0:
\* `doc`, or, when another writer's bytes were there and are longer, bytes
\* that do not parse
DumpOutcomes(f, doc) ==
    IF f.st \in {"empty", "missing"} THEN {doc} ELSE {doc, NoDoc("garbled")}

\* a save that is taken again when the bytes in the file do not parse
USaveDumpRetrying(p) ==
    /\ pc[p] = "opened"
    /\ file' \in DumpOutcomes(file, cur[p])
    /\ writer' = [by |-> p, doc |-> cur[p]]
    /\ IF file'.st = "ok"
       THEN /\ ret' = [ret EXCEPT ![p] = [err |-> "", doc |-> cur[p]]]
            /\ pc' = [pc EXCEPT ![p] = "idle"]
       ELSE /\ pc' = [pc EXCEPT ![p] = "merged"]
            /\ UNCHANGED ret
    /\ UNCHANGED <<clock, last, passed, cur, args, wrote, runs>>

\* line 28 of save, the end of the with block, and line 54: return current
USaveDump(p) ==
    /\ pc[p] = "opened"
    /\ file' \in DumpOutcomes(file, cur[p])
    /\ writer' = [by |-> p, doc |-> cur[p]]
    /\ ret' = [ret EXCEPT ![p] = [err |-> "", doc |-> cur[p]]]
    /\ pc' = [pc EXCEPT ![p] = "idle"]
    /\ UNCHANGED <<clock, last, passed, cur, args, wrote, runs>>

NextConc == \E p \in Procs : ULoad(p) \/ UMerge(p) \/ USaveOpen(p) \/ USaveDump(p)

SpecConc == Init /\ [][NextConc]_vars

\* a call of update() that has loaded runs on to its return or its raise:
\* update() has no loop but the one over the items of its arguments and waits
\* for nothing
SpecConcFair ==
    SpecConc /\ \A p \in Procs : WF_vars(UMerge(p) \/ USaveOpen(p) \/ USaveDump(p))

\* ---------------------------------------------------------------- claims
\* helpers of the claims
IsDict(e) == e.kind = "dict"
DictsOf(q) == SelectSeq(q, IsDict)
ListValues == {v \in Values : v.shape = "list"}
DictValues == {v \in Values : v.shape = "dict"}
\* update(c: v) with no sources, on the file as it is, at the present time
UpdateOne(c, v) == update(file, Args(c, v), <<>>, file.sources, clock, clock)
Stored(c) == file.patterns[c]

\* no sequence-valued category of document f holds two dict entries with the
\* same non-null `example`
NoDuplicateExamples(f) ==
    f.st = "ok" =>
      \A c \in Categories : f.patterns[c].shape = "list" =>
        \A i, j \in DOMAIN f.patterns[c].items :
          LET a == f.patterns[c].items[i]
              b == f.patterns[c].items[j]
          IN (i < j /\ IsDict(a) /\ IsDict(b) /\ GetExample(a) # None)
                => GetExample(a) # GetExample(b)

\* C1: a successful update() or clear() on a store whose sequences hold no two
\* dict entries with the same non-null `example` leaves such a store (the
\* empty store is one, so every store update() and clear() reach would be).
C1_NoDuplicateExamples ==
    [][(last'.op \in {"update", "clear"} /\ last'.err = ""
          /\ NoDuplicateExamples(file)) => NoDuplicateExamples(file')]_vars

\* the incoming dict entries a sequence merge is to append: those whose
\* `example` is neither among the existing dict entries nor carried by an
\* earlier dict entry of the batch
RECURSIVE NewDicts(_, _, _)
NewDicts(existing, new, i) ==
    IF i > Len(new) THEN <<>>
    ELSE LET e == new[i]
             fresh == /\ IsDict(e)
                      /\ \A k \in DOMAIN existing :
                           IsDict(existing[k]) => GetExample(existing[k]) # GetExample(e)
                      /\ \A k \in 1..(i - 1) :
                           IsDict(new[k]) => GetExample(new[k]) # GetExample(e)
         IN (IF fresh THEN <<e>> ELSE <<>>) \o NewDicts(existing, new, i + 1)

\* C2: update() with a sequence for a category that holds a sequence succeeds
\* and stores the existing entries, in place, followed by the incoming dict
\* entries whose `example` is new (to the stored entries and to the batch so
\* far), in their order.
C2_SequenceMerge ==
    file.st = "ok" =>
      \A c \in Categories : Stored(c).shape = "list" =>
        \A v \in ListValues :
          LET r == UpdateOne(c, v)
              old == Stored(c).items
              got == r.file.patterns[c]
          IN /\ r.err = ""
             /\ got.shape = "list"
             /\ Len(got.items) >= Len(old)
             /\ SubSeq(got.items, 1, Len(old)) = old
             /\ DictsOf(SubSeq(got.items, Len(old) + 1, Len(got.items)))
                  = NewDicts(old, v.items, 1)

\* C2 witness: an update() has run, a category holds a sequence with a dict
\* entry, and there is a batch of which the merge appends one dict entry and
\* rejects another
C2_Witness ==
    /\ last = [op |-> "update", err |-> ""]
    /\ file.st = "ok"
    /\ \E c \in Categories :
         /\ Stored(c).shape = "list"
         /\ DictsOf(Stored(c).items) # <<>>
         /\ \E v \in ListValues :
              /\ NewDicts(Stored(c).items, v.items, 1) # <<>>
              /\ Len(NewDicts(Stored(c).items, v.items, 1)) < Len(DictsOf(v.items))
              /\ UpdateOne(c, v).file.patterns[c].items
                   = Stored(c).items \o NewDicts(Stored(c).items, v.items, 1)

\* C3: update() with a mapping for a category that holds a sequence does not
\* raise, and the category becomes the incoming mapping.
C3_SequenceThenMapping ==
    file.st = "ok" =>
      \A c \in Categories : Stored(c).shape = "list" =>
        \A v \in DictValues :
          /\ UpdateOne(c, v).err = ""
          /\ UpdateOne(c, v).file.patterns[c] = v

\* C4: update() with a sequence for a category that holds a mapping or a
\* scalar does not raise, and the category becomes the incoming sequence.
C4_MappingThenSequence ==
    file.st = "ok" =>
      \A c \in Categories : Stored(c).shape \in {"dict", "str", "num"} =>
        \A v \in ListValues :
          /\ UpdateOne(c, v).err = ""
          /\ UpdateOne(c, v).file.patterns[c] = v

\* C5: update() with a mapping for a category that holds a mapping succeeds
\* and stores a mapping with the keys of both; a key of the incoming mapping
\* has the incoming value, a key of the stored mapping alone keeps its value.
C5_MappingMerge ==
    file.st = "ok" =>
      \A c \in Categories : Stored(c).shape = "dict" =>
        \A v \in DictValues :
          LET r == UpdateOne(c, v)
              got == r.file.patterns[c]
          IN /\ r.err = ""
             /\ got.shape = "dict"
             /\ \A a \in AttrNames :
                  /\ (v.attrs[a] # NoAttr) => got.attrs[a] = v.attrs[a]
                  /\ (v.attrs[a] = NoAttr) => got.attrs[a] = Stored(c).attrs[a]

\* C5 witness: an update() has run, a category holds a mapping, and there is a
\* mapping that overwrites one of its keys and leaves another one alone
C5_Witness ==
    /\ last = [op |-> "update", err |-> ""]
    /\ file.st = "ok"
    /\ \E c \in Categories :
         /\ Stored(c).shape = "dict"
         /\ \E v \in DictValues : \E a, b \in AttrNames :
              /\ Stored(c).attrs[a] # NoAttr /\ v.attrs[a] # NoAttr
              /\ Stored(c).attrs[a] # v.attrs[a]
              /\ Stored(c).attrs[b] # NoAttr /\ v.attrs[b] = NoAttr
              /\ UpdateOne(c, v).file.patterns[c].attrs[a] = v.attrs[a]
              /\ UpdateOne(c, v).file.patterns[c].attrs[b] = Stored(c).attrs[b]

\* C6: in a store that update() calls built from an empty one, `sources` holds
\* no identifier twice and holds exactly the identifiers passed to the calls
\* that returned.
C6_SourcesUnion ==
    file.st = "ok" =>
      /\ Range(file.sources) = passed
      /\ \A i, j \in DOMAIN file.sources : i # j => file.sources[i] # file.sources[j]

\* C6 witness: update() calls have passed two identifiers, one of them twice
\* at least, and the store holds both
C6_Witness ==
    /\ last = [op |-> "update", err |-> ""]
    /\ file.st = "ok"
    /\ Len(file.sources) = 2
    /\ passed = SourceIds
    /\ \E sources \in SourcesArgs :
         /\ sources # <<>>
         /\ SourceSet(file, sources) = Range(file.sources)

\* the arguments C7 is checked for: one value of each shape for any
\* categories, and for one category every value of every shape whose sequences
\* have at most two entries (two are what a repetition inside a batch takes)
AllArgs ==
    CatsArgs \cup {P \in HooksArgs : P["hooks"].shape = "list" => Len(P["hooks"].items) <= 2}

\* C7: whenever update(P, S) succeeds, update(P, S) again succeeds and leaves
\* the same `sources` set, of the same size, and the same `patterns`.
C7_Idempotent ==
    \A P \in AllArgs, S \in SourcesArgs :
      LET once == update(file, P, S,
                         CHOOSE q \in ListsOfSet(SourceSet(load(file, clock, clock).doc, S)) : TRUE,
                         clock, clock)
      IN once.err = "" =>
           \A q2 \in ListsOfSet(SourceSet(once.file, S)) :
             LET twice == update(once.file, P, S, q2, clock, clock)
             IN /\ twice.err = ""
                /\ Range(twice.file.sources) = Range(once.file.sources)
                /\ Len(twice.file.sources) = Len(once.file.sources)
                /\ twice.file.patterns = once.file.patterns

\* C7 witness: the store is as an update(P, S) left it, with S not empty and P
\* a sequence of dict entries for a category that held a sequence, and
\* update(P, S) again changes neither sources nor patterns
C7_Witness ==
    /\ last = [op |-> "update", err |-> ""]
    /\ file.st = "ok"
    /\ \E c \in Categories, S \in SourcesArgs :
         /\ S # <<>>
         /\ Range(S) \subseteq Range(file.sources)
         /\ Stored(c).shape = "list"
         /\ DictsOf(Stored(c).items) # <<>>
         /\ LET again == update(file, Args(c, Stored(c)), S, file.sources, clock, clock)
            IN /\ again.err = ""
               /\ again.file.patterns = file.patterns
               /\ again.file.sources = file.sources

\* C11: load() of a missing file returns the empty scaffold (all root fields,
\* version "1.0", no sources, no patterns) and does not raise; load() of a file
\* that does not parse raises, update() and get_summary() raise the same and
\* update() writes nothing; after a load() that raised the file still does not
\* parse.
C11_LoadMissingOrCorrupt ==
    /\ file.st = "missing" =>
         \A t1 \in Times(0) : \A t2 \in Times(t1) :
           LET l == load(file, t1, t2) IN
           /\ l.err = ""
           /\ l.doc.st = "ok"
           /\ l.doc.fields = RootFields
           /\ l.doc.version = "1.0"
           /\ l.doc.sources = <<>>
           /\ \A c \in Categories : l.doc.patterns[c].shape = "absent"
    /\ file.st \in {"empty", "garbled"} =>
         /\ load(file, clock, clock).err = "JSONDecodeError"
         /\ get_summary(file).err = "JSONDecodeError"
         /\ \A P \in StoreArgs, S \in SourcesArgs :
              /\ update(file, P, S, S, clock, clock).err = "JSONDecodeError"
              /\ update(file, P, S, S, clock, clock).file = file
    /\ (last.op = "load" /\ last.err # "") => file.st \in {"empty", "garbled"}

\* C11 witness: a load() has raised on a file a stopped write left, and the
\* file is as the stopped write left it
C11_Witness ==
    /\ last = [op |-> "load", err |-> "JSONDecodeError"]
    /\ file = NoDoc("empty")
    /\ get_summary(file).err = "JSONDecodeError"

\* C12: after a clear() that returned, whatever the file held, load() does not raise and
\* returns no patterns and no sources, and the file is what save() of a fresh
\* empty scaffold writes.
C12_ClearEmpties ==
    (last.op = "clear" /\ last.err = "") =>
      /\ load(file, clock, clock).err = ""
      /\ \A c \in Categories : load(file, clock, clock).doc.patterns[c].shape = "absent"
      /\ load(file, clock, clock).doc.sources = <<>>
      /\ \E t1 \in Times(0) : \E t2 \in Times(t1) : \E t \in Times(t2) :
           file = save(_empty_patterns(t1, t2), t)

\* C12 witness: clear() has run and the file is an empty collection stamped
\* later than it was created
C12_Witness ==
    /\ last = [op |-> "clear", err |-> ""]
    /\ file.st = "ok"
    /\ file.patterns = NoPatterns
    /\ file.created_at < file.updated_at

\* C13: for a well-formed document in the file, save(load()) writes a document
\* with the same patterns (categories, entries, order) and the same sources;
\* nothing but updated_at differs.
C13_RoundTrip ==
    file.st = "ok" =>
      \A t \in Times(clock) :
        LET again == save(load(file, clock, clock).doc, t) IN
        /\ again.patterns = file.patterns
        /\ again.sources = file.sources
        /\ again = [file EXCEPT !.updated_at = t]

\* C13 witness: save(load()) has run on a document with two sources and a
\* category, later than the document was created
C13_Witness ==
    /\ last = [op |-> "resave", err |-> ""]
    /\ file.st = "ok"
    /\ Len(file.sources) = 2
    /\ file.patterns["hooks"].shape = "list"
    /\ file.created_at < file.updated_at

\* c as load() returns it after save(c) at time t
Restamped(c, t) == [c EXCEPT !.updated_at = t, !.fields = @ \cup {"updated_at"}]

\* C14: whatever the file holds, load() after save(c) returns c with
\* updated_at restamped and nothing else; after a save(c) the file holds
\* nothing but such a c.
C14_SaveReplaces ==
    /\ \A c \in SaveDocs, t \in Times(clock) :
         /\ load(save(c, t), t, t).err = ""
         /\ load(save(c, t), t, t).doc = Restamped(c, t)
    /\ (last.op = "save" /\ last.err = "") =>
         \E c \in SaveDocs : load(file, clock, clock).doc = Restamped(c, file.updated_at)

\* C14 witness: save(c) has run with a c that has one source and one
\* category, and the file holds that source and that category alone
C14_Witness ==
    /\ last = [op |-> "save", err |-> ""]
    /\ file.sources = <<"b.md">>
    /\ file.patterns = Args("misc", StrVal("x"))
    /\ file.created_at < file.updated_at

\* C15: the collection a successful update() returns is, field for field,
\* what load() returns right after it.
C15_ReturnsWhatItSaved ==
    \A P \in StoreArgs, S \in SourcesArgs :
      \A t1 \in Times(clock) : \A t2 \in Times(t1) :
        \A srcs \in ListsOfSet(SourceSet(load(file, t1, t1).doc, S)) :
          LET r == update(file, P, S, srcs, t1, t2) IN
          r.err = "" => load(r.file, t2, t2) = [err |-> "", doc |-> r.doc]

\* C15 witness: an update() has returned, the file holds a source and a
\* category and is stamped later than it was created, and the next update()
\* returns what it saves
C15_Witness ==
    /\ last = [op |-> "update", err |-> ""]
    /\ file.st = "ok"
    /\ file.sources # <<>>
    /\ file.patterns["hooks"].shape = "list"
    /\ file.created_at < file.updated_at
    /\ \E P \in StoreArgs, S \in SourcesArgs :
         LET r == update(file, P, S, file.sources, clock, clock) IN
         /\ Range(S) \subseteq Range(file.sources)
         /\ r.err = ""
         /\ r.doc = r.file

\* C16: a sequence merge leaves every entry the category held where it was and
\* as it was, whatever the batch, a batch with an entry that has the `example`
\* of a stored entry and another attribute included.
C16_StoredEntriesKept ==
    file.st = "ok" =>
      \A c \in Categories : Stored(c).shape = "list" =>
        \A v \in ListValues :
          LET got == UpdateOne(c, v).file.patterns[c]
          IN \A i \in DOMAIN Stored(c).items :
               /\ i \in DOMAIN got.items
               /\ got.items[i] = Stored(c).items[i]

\* C16 witness: an update() has run, a category holds a dict entry with an
\* `example`, and the merge of a batch holding an entry with that `example`
\* and another attribute leaves the sequence as it is
C16_Witness ==
    /\ last = [op |-> "update", err |-> ""]
    /\ file.st = "ok"
    /\ \E c \in Categories, a \in Strs :
         /\ Stored(c).shape = "list"
         /\ DictEntry(1) \in Range(Stored(c).items)
         /\ TaggedEntry(1, a) \notin Range(Stored(c).items)
         /\ UpdateOne(c, ListVal(<<TaggedEntry(1, a)>>)).err = ""
         /\ UpdateOne(c, ListVal(<<TaggedEntry(1, a)>>)).file.patterns[c] = Stored(c)

\* the dict entries of document f's sequences that have no `example`: at most
\* one in a category
AtMostOneKeyless(f) ==
    f.st = "ok" =>
      \A c \in Categories : f.patterns[c].shape = "list" =>
        \A i, j \in DOMAIN f.patterns[c].items :
          LET a == f.patterns[c].items[i]
              b == f.patterns[c].items[j]
          IN (IsDict(a) /\ IsDict(b) /\ GetExample(a) = None /\ GetExample(b) = None)
                => i = j

\* C17: an update() that returns on a store whose sequences hold at most one
\* dict entry without `example` each leaves such a store, the update() that
\* creates the category included.
C17_AtMostOneKeyless ==
    [][(last'.op = "update" /\ last'.err = "" /\ AtMostOneKeyless(file))
          => AtMostOneKeyless(file')]_vars

\* the document holds no category: its `patterns` is empty or it has none
Unlearned(f) == "patterns" \notin f.fields \/ f.patterns = NoPatterns

\* C18: load_patterns returns success False and patterns None when there is
\* no file and when the document has an empty `patterns` or none, success True
\* with the stored patterns when `patterns` is not empty and only then, and
\* raises when the file does not parse.
C18_NotYetLearned ==
    LET r == load_patterns(file) IN
    /\ file.st = "missing" => (r.err = "" /\ ~r.success /\ r.none)
    /\ (file.st = "ok" /\ Unlearned(file)) => (r.err = "" /\ ~r.success /\ r.none)
    /\ (file.st = "ok" /\ ~Unlearned(file)) =>
         (r.err = "" /\ r.success /\ ~r.none /\ r.patterns = file.patterns)
    /\ file.st \in {"empty", "garbled"} => (r.err # "" /\ ~r.success)
    /\ (last.op = "load_patterns" /\ last.err = "" /\ r.success)
         => \E c \in Categories : file.patterns[c].shape # "absent"

\* C18 witness: load_patterns has run on a document that has no `patterns`
\* key and has returned success False, patterns None
C18_Witness ==
    /\ last = [op |-> "load_patterns", err |-> ""]
    /\ file.st = "ok"
    /\ "patterns" \notin file.fields
    /\ ~load_patterns(file).success
    /\ load_patterns(file).none

\* C19: get_summary() does not raise on a file that is missing or parses; it
\* returns None when `patterns` is empty or missing, and a digest otherwise.
C19_SummaryOrAbsent ==
    file.st \in {"missing", "ok"} =>
      /\ get_summary(file).err = ""
      /\ get_summary(file).none <=> (file.st = "missing" \/ Unlearned(file))

\* the known categories document f holds, in the order of get_summary
PresentKnown(f) ==
    LET Holds(c) == f.patterns[c].shape # "absent"
    IN SelectSeq(KnownCategories, Holds)

\* the digest of document f: the source count, the time of the last update, a
\* blank line, then a line for each known category f holds, in the order of
\* KnownCategories, and no other line; hooks and ctas sequences show their
\* length, a topics sequence its first TopN entries
DigestFits(f, lines) ==
    LET known == PresentKnown(f) IN
    /\ Len(lines) = 3 + Len(known)
    /\ lines[1].tag = "Sources" /\ lines[1].n = Len(f.sources)
    /\ lines[2].tag = "Last updated" /\ lines[2].n = f.updated_at
    /\ lines[3] = Line("", 0, "", <<>>)
    /\ \A i \in DOMAIN known :
         LET v == f.patterns[known[i]]
             line == lines[3 + i]
         IN /\ line.tag = Label(known[i])
            /\ (known[i] \in {"hooks", "ctas"} /\ v.shape = "list") => line.n = Len(v.items)
            /\ (known[i] = "topics" /\ v.shape = "list") =>
                 /\ Len(line.items) <= TopN
                 /\ Len(line.items) <= Len(v.items)
                 /\ Len(line.items) = TopN \/ Len(line.items) = Len(v.items)
                 /\ \A j \in DOMAIN line.items : line.items[j] = v.items[j].s

\* C20: a get_summary() that returns a digest returns the lines DigestFits
\* describes and leaves the file, its other categories included, as it was.
C20_DigestOrder ==
    [][(last'.op = "get_summary" /\ last'.err = "" /\ ~get_summary(file).none)
          => (file' = file /\ DigestFits(file, get_summary(file).lines))]_vars

\* C20 witness: get_summary has returned a digest of a document that holds
\* the five known categories, a category of another name, and more topics
\* than the digest shows
C20_Witness ==
    /\ last = [op |-> "get_summary", err |-> ""]
    /\ file.st = "ok"
    /\ \A c \in Categories : file.patterns[c].shape # "absent"
    /\ Len(file.patterns["topics"].items) > TopN
    /\ Len(get_summary(file).lines) = 3 + Len(KnownCategories)
    /\ Len(get_summary(file).lines[8].items) = TopN

\* the calls that write the file
Writes == {"save", "resave", "update", "clear", "save_patterns"}

\* C21: a write that completes stamps the document with a time that is not
\* before the time any earlier call read from the clock, and so not before the
\* updated_at of the document it replaces.
C21_UpdatedAtMonotone ==
    [][(last'.op \in Writes /\ last'.err = "")
          => /\ file'.st = "ok"
             /\ "updated_at" \in file'.fields
             /\ file'.updated_at >= clock
             /\ file.st = "ok" => file'.updated_at >= file.updated_at]_vars

\* C21 witness: a document created by one write has been replaced by a later
\* one, stamped later
C21_Witness ==
    /\ last.op \in Writes /\ last.err = ""
    /\ file.st = "ok"
    /\ "created_at" \in file.fields
    /\ file.created_at < file.updated_at
    /\ Len(file.sources) = 2

\* C22: a write is not atomic: when a call was stopped inside its write, the
\* file holds nothing or the beginning of a document, and the next load()
\* raises a parse failure, as do update() and get_summary(), which load first.
C22_StoppedWriteCorrupts ==
    last.err = "killed" =>
      /\ last.op \in {"update", "clear", "save_patterns"}
      /\ file \in {NoDoc("empty"), NoDoc("garbled")}
      /\ \A t \in Times(clock) : load(file, t, t).err = "JSONDecodeError"
      /\ get_summary(file).err = "JSONDecodeError"
      /\ \A P \in StoreArgs, S \in SourcesArgs : \A t \in Times(clock) :
           update(file, P, S, S, t, t).err = "JSONDecodeError"

\* C22 witness: an update() was stopped inside its write and left the
\* beginning of a document
C22_Witness ==
    /\ last = [op |-> "update", err |-> "killed"]
    /\ file = NoDoc("garbled")
    /\ update(file, NoPatterns, <<>>, <<>>, clock, clock).err = "JSONDecodeError"

\* the values that are neither a sequence nor a mapping
ScalarValues == {v \in Values : v.shape \notin {"list", "dict", "absent"}}

\* C23: update() sets a category that is not stored yet to the incoming value
\* as given, whatever its shape (a sequence with repeated entries included),
\* and an incoming value that is neither a sequence nor a mapping replaces
\* whatever the category held; neither raises.
C23_NewOrScalarStoredVerbatim ==
    file.st \in {"missing", "ok"} =>
      \A c \in Categories :
        /\ Stored(c).shape = "absent" =>
             \A v \in Values \ {Absent} :
               LET r == UpdateOne(c, v) IN
               /\ r.err = ""
               /\ r.file.patterns[c] = v
               /\ r.doc.patterns[c] = v
        /\ \A v \in ScalarValues :
             LET r == UpdateOne(c, v) IN
             /\ r.err = ""
             /\ r.file.patterns[c] = v
             /\ r.doc.patterns[c] = v

\* C23 witness: an update() has stored the sequence of a new category with
\* its repeated entry
C23_Witness ==
    /\ last = [op |-> "update", err |-> ""]
    /\ file.st = "ok"
    /\ Stored("hooks") = ListVal(<<DictEntry(1), DictEntry(1)>>)
    /\ UpdateOne("hooks", StrVal("x")).file.patterns["hooks"] = StrVal("x")

\* the entries of the batch `new` that a merge into `existing` appends, in
\* their order: a dict entry by its `example` among the dict entries, a bare
\* string by equality with the elements
RECURSIVE Appended(_, _, _)
Appended(existing, new, i) ==
    IF i > Len(new) THEN <<>>
    ELSE LET e == new[i]
             fresh == IF IsDict(e)
                      THEN /\ \A k \in DOMAIN existing :
                                IsDict(existing[k])
                                  => GetExample(existing[k]) # GetExample(e)
                           /\ \A k \in 1..(i - 1) :
                                IsDict(new[k]) => GetExample(new[k]) # GetExample(e)
                      ELSE /\ e \notin Range(existing)
                           /\ \A k \in 1..(i - 1) : new[k] # e
         IN (IF fresh THEN <<e>> ELSE <<>>) \o Appended(existing, new, i + 1)

\* C24: in a merge of a sequence into a stored sequence a bare string entry is
\* appended exactly when no element equal to it is in the sequence at that
\* moment (a string repeated in the batch once), whatever `example` keys the
\* dict entries have, and it does not change which dict entries are appended.
C24_ScalarEntries ==
    file.st = "ok" =>
      \A c \in Categories : Stored(c).shape = "list" =>
        \A v \in ListValues :
          LET r == UpdateOne(c, v)
              old == Stored(c).items
          IN /\ r.err = ""
             /\ r.file.patterns[c] = ListVal(old \o Appended(old, v.items, 1))

\* C24 witness: an update() has run, the stored sequence holds a dict entry
\* without `example` and no string, and a merge of a batch that repeats a
\* string appends the string once
C24_Witness ==
    /\ last = [op |-> "update", err |-> ""]
    /\ file.st = "ok"
    /\ Stored("hooks") = ListVal(<<DictEntry(None)>>)
    /\ UpdateOne("hooks", ListVal(<<StrEntry("x"), StrEntry("x")>>)).file.patterns["hooks"]
         = ListVal(<<DictEntry(None), StrEntry("x")>>)

\* C25: an update() that returns, on a document the file holds, leaves
\* `version` (which is "1.0"), created_at and every category it does not name
\* as they were, and update({}, []) leaves all of the document but updated_at
\* as it was.
C25_UpdateFrame ==
    file.st = "ok" =>
      \A P \in StoreArgs, S \in SourcesArgs :
        \A srcs \in ListsOfSet(SourceSet(file, S)) :
          LET r == update(file, P, S, srcs, clock, clock) IN
          r.err = "" =>
            /\ r.file.version = file.version
            /\ r.file.created_at = file.created_at
            /\ \A f \in {"version", "created_at"} :
                 f \in r.file.fields <=> f \in file.fields
            /\ \A c \in Categories :
                 P[c].shape = "absent" => r.file.patterns[c] = file.patterns[c]
            /\ r.file.version = "1.0"
            /\ (P = NoPatterns /\ S = <<>>) =>
                 /\ r.file.sources = file.sources
                 /\ r.file.patterns = file.patterns
                 /\ r.file.fields = file.fields \cup {"updated_at"}

\* the steps of one call of update(), as pairs of places: the load, the merge
\* (or its raise), the opening of the file by save, the end of save and the
\* return
CallSteps ==
    {<<"idle", "loaded">>, <<"loaded", "merged">>, <<"loaded", "idle">>,
     <<"merged", "opened">>, <<"opened", "idle">>}

\* C26: a call of update() loads once, then merges, then saves at most once,
\* and never goes back: the file is written only by a call that has merged; a
\* call whose load or merge raised has not written and returns the failure; a
\* call that saved returns the collection it saved; and a call that has
\* loaded comes to its end.
C26_LoadThenSaveOnce ==
    /\ [][\A p \in Procs :
            /\ pc'[p] # pc[p] => <<pc[p], pc'[p]>> \in CallSteps
            /\ (wrote'[p] /\ ~wrote[p]) => (pc[p] = "merged" /\ pc'[p] = "opened")
            /\ (pc[p] = "idle" /\ pc'[p] = "idle" /\ runs'[p] # runs[p])
                 => (ret'[p].err = "JSONDecodeError" /\ ~wrote'[p])
            /\ (pc[p] = "loaded" /\ pc'[p] = "idle")
                 => (ret'[p].err \notin {"none", ""} /\ ~wrote'[p])
            /\ (pc[p] = "opened" /\ pc'[p] = "idle")
                 => (wrote[p] /\ ret'[p] = [err |-> "", doc |-> cur[p]])
            /\ pc'[p] = pc[p] /\ pc[p] # "idle" => cur'[p] = cur[p]]_vars
    /\ [][file' # file
            => \E p \in Procs : pc[p] \in {"merged", "opened"} /\ pc'[p] # pc[p]]_vars
    /\ \A p \in Procs : (pc[p] # "idle") ~> (pc[p] = "idle")

\* C26 witness: one call has loaded, merged, saved and returned the
\* collection the file holds, and the call of another process, whose load
\* found the file opened by that save, has raised and written nothing
C26_Witness ==
    \E p, q \in Procs :
      /\ p # q
      /\ pc[p] = "idle" /\ pc[q] = "idle"
      /\ ret[p].err = "" /\ wrote[p] /\ file = ret[p].doc
      /\ ret[q].err = "JSONDecodeError" /\ ~wrote[q]

\* the calls that read the file
Reads == {"load", "get_summary", "load_patterns"}

\* C27: load(), get_summary() and load_patterns leave the file as it is,
\* whether they return or raise: a missing file stays missing, and a file
\* that holds something holds the same afterwards.
C27_ReadsLeaveFile ==
    [][last'.op \in Reads => file' = file]_vars

\* C27 witness: load() has returned the scaffold for a missing file and the
\* file is still missing
C27_Witness ==
    /\ last = [op |-> "load", err |-> ""]
    /\ file = Missing
    /\ load(file, clock, clock).doc.fields = RootFields
    /\ get_summary(file).none
    /\ ~load_patterns(file).success

\* C28: save_patterns on a document the file holds returns, stores each
\* category it is given as given (nothing of what the category held is kept,
\* nothing of what is given is dropped), and leaves the categories it is not
\* given, sources, version and created_at as they were.
C28_SavePatternsReplaces ==
    file.st = "ok" =>
      \A P \in AllArgs : \A t \in Times(clock) :
        LET r == save_patterns(file, P, t) IN
        /\ r.err = ""
        /\ r.file.st = "ok"
        /\ \A c \in Categories :
             r.file.patterns[c] = IF P[c].shape # "absent" THEN P[c]
                                  ELSE file.patterns[c]
        /\ r.file.sources = file.sources
        /\ r.file.version = file.version
        /\ r.file.created_at = file.created_at
        /\ \A f \in {"sources", "version", "created_at"} :
             f \in r.file.fields <=> f \in file.fields

\* C28 witness: save_patterns has run on a document with a source, a sequence
\* and a mapping; given a sequence that repeats an entry it stores the
\* repetition, and given a mapping without `formality` it stores none
C28_Witness ==
    /\ last = [op |-> "save_patterns", err |-> ""]
    /\ file.st = "ok"
    /\ file.sources # <<>>
    /\ Stored("hooks") = ListVal(<<DictEntry(1)>>)
    /\ Stored("tone").shape = "dict"
    /\ Stored("tone").attrs["formality"] # NoAttr
    /\ save_patterns(file, Args("hooks", ListVal(<<DictEntry(1), DictEntry(1)>>)), clock).file.patterns["hooks"]
         = ListVal(<<DictEntry(1), DictEntry(1)>>)
    /\ \E v \in DictValues :
         /\ v.attrs["formality"] = NoAttr
         /\ v.attrs["voice"] # NoAttr
         /\ save_patterns(file, Args("tone", v), clock).file.patterns["tone"] = v

\* C10: a document at the storage path has all the root fields.
C10_RootFields == file.st = "ok" => RootFields \subseteq file.fields

\* the categories a call names
Named(call) == {c \in Categories : call.new_patterns[c].shape # "absent"}

\* C8: a well-formed document in the file is, field for field, the
\* collection of the save that completed last: nothing another process saved
\* and this one had not loaded is in it.
C8_LastWriterWins ==
    (writer.by \in Procs /\ file.st = "ok") => file = writer.doc

\* C8 witness: two processes called update() for different categories, both
\* loaded before either saved, both calls returned, and the file is the later
\* writer's collection, without the source and the category of the other
C8_Witness ==
    \E p, q \in Procs :
      /\ p # q
      /\ pc[p] = "idle" /\ pc[q] = "idle"
      /\ ret[p].err = "" /\ ret[q].err = ""
      /\ Named(args[p]) \cap Named(args[q]) = {}
      /\ writer.by = q
      /\ file = ret[q].doc
      /\ \E s \in Range(ret[p].doc.sources) : s \notin Range(file.sources)
      /\ \E c \in Named(args[p]) :
           /\ ret[p].doc.patterns[c].shape # "absent"
           /\ file.patterns[c].shape = "absent"

\* C9: a call of update() that raised has not opened the file for writing.
C9_FailedUpdateWritesNothing ==
    \A p \in Procs : ret[p].err \notin {"none", ""} => ~wrote[p]

\* C9 witness: the merge of a call raised (a mapping for a category that
\* holds a sequence) and the file is the document the call loaded
C9_Witness ==
    \E p \in Procs :
      /\ ret[p].err = "AttributeError"
      /\ pc[p] = "idle"
      /\ ~wrote[p]
      /\ file = cur[p]
      /\ \E c \in Named(args[p]) : file.patterns[c].shape = "list"

\* a call whose load raised because the file did not parse
C9_LoadRaised ==
    \E p \in Procs :
      /\ ret[p].err = "JSONDecodeError"
      /\ ~wrote[p]
      /\ file.st \in {"empty", "garbled"}

====
